---------------------------- MODULE Spec2Model ----------------------------
(***************************************************************************)
(* Model of MFDFA/singspect.py: the moment-order cleaner _clean_q, the     *)
(* slope estimator _slopes and the three public operations                 *)
(* hurst_exponents, scaling_exponents and singularity_spectrum.            *)
(*                                                                         *)
(* Numbers.  A real number is a pair <<n, d>> with d > 0 in lowest terms;  *)
(* <<0, 0>> is NaN and <<1, 0>>, <<-1, 0>> are +inf and -inf.  Arithmetic  *)
(* on finite values is exact, so "equal within floating-point tolerance"   *)
(* is equality here.                                                       *)
(*                                                                         *)
(* Logarithms.  Lag values and fluctuation values are powers of two and    *)
(* np.log is modelled by Log2.  A least-squares slope of log(F) against    *)
(* log(lag) is the same in every base (the factor ln 2 cancels), and so is *)
(* the minimum-norm slope of a one-point fit.                              *)
(*                                                                         *)
(* np.float (line 386) is the alias of the builtin float, as in the numpy  *)
(* releases the package was written for.  The interpolate argument is      *)
(* read by no statement of the module and is left out.                     *)
(***************************************************************************)
EXTENDS Integers, Sequences, FiniteSets

VARIABLES lag, mfdfa, q, lim, default_lim, op, result

vars == <<lag, mfdfa, q, lim, default_lim, op, result>>

----------------------------------------------------------------------------
(* Bounds of the model *)

MaxQLen == 3
MaxLagLen == 6
MaxCols == 3
MaxCleanLen == 4

----------------------------------------------------------------------------
(* Rational arithmetic *)

Abs(n) == IF n < 0 THEN -n ELSE n

RECURSIVE GCD(_, _)
GCD(a, b) == IF b = 0 THEN a ELSE GCD(b, a % b)

RNorm(n, d) ==
    LET s == IF d < 0 THEN -1 ELSE 1
        g == GCD(Abs(n), Abs(d))
    IN  <<(s * n) \div g, (s * d) \div g>>

R(n) == <<n, 1>>
RSub(a, b) == RNorm(a[1] * b[2] - b[1] * a[2], a[2] * b[2])
RMul(a, b) == RNorm(a[1] * b[1], a[2] * b[2])
RDiv(a, b) == RNorm(a[1] * b[2], a[2] * b[1])
RLt(a, b) == a[1] * b[2] < b[1] * a[2]

NaN == <<0, 0>>
PInf == <<1, 0>>
IsFinite(v) == v[2] # 0

RECURSIVE Pow2(_)
Pow2(e) == IF e = 0 THEN 1 ELSE 2 * Pow2(e - 1)

RECURSIVE Log2(_)
Log2(v) == IF v <= 1 THEN 0 ELSE 1 + Log2(v \div 2)

RECURSIVE SumSeq(_)
SumSeq(s) == IF s = <<>> THEN 0 ELSE Head(s) + SumSeq(Tail(s))

----------------------------------------------------------------------------
(* Python values *)

None == <<>>
Idx(k) == <<k>>
NoneNone == <<None, None>>
Omitted == <<>>

Min(a, b) == IF a < b THEN a ELSE b
Max(a, b) == IF a > b THEN a ELSE b

\* s[lo:hi] for a sequence s and slice bounds that are None or Idx(k).
PySlice(s, lo, hi) ==
    LET n == Len(s)
        clip(b, dflt) == IF b = None THEN dflt
                         ELSE IF b[1] < 0 THEN Max(0, n + b[1])
                         ELSE Min(b[1], n)
        start == clip(lo, 0)
        stop == clip(hi, n)
    IN  IF stop <= start THEN <<>> ELSE SubSeq(s, start + 1, stop)

Ok(a, b) == [status |-> "ok", a |-> a, b |-> b]
Err(e) == [status |-> e, a |-> <<>>, b |-> <<>>]
NoResult == [status |-> "none", a |-> <<>>, b |-> <<>>]

----------------------------------------------------------------------------
(* _clean_q *)

Tenth == <<1, 10>>


\* Mutant: the band is taken open, so the boundary values -0.1 and 0.1 stay.
KeepMaskClosedBand(v) == ~RLt(RSub(R(0), Tenth), v) \/ ~RLt(v, Tenth)

\* (q < -.1) + (q > .1)
KeepMask(v) == RLt(v, RSub(R(0), Tenth)) \/ RLt(Tenth, v)

RECURSIVE Compress(_)
Compress(s) ==
    IF s = <<>> THEN <<>>
    ELSE IF KeepMask(Head(s)) THEN <<Head(s)>> \o Compress(Tail(s))
    ELSE Compress(Tail(s))

AsarrayChkfinite(s) == \A i \in 1..Len(s) : IsFinite(s[i])


\* Mutant: an empty cleaned sequence is refused.
clean_q_refusing_empty(s) ==
    IF ~AsarrayChkfinite(s) THEN Err("DomainError")
    ELSE IF Compress(s) = <<>> THEN Err("EmptyError")
    ELSE Ok(Compress(s), <<>>)

clean_q(s) ==
    IF ~AsarrayChkfinite(s) THEN Err("DomainError")
    ELSE Ok(Compress(s), <<>>)

----------------------------------------------------------------------------
(* numpy.polynomial.polynomial.polyfit(x, y, 1)[1] and np.gradient *)

\* The slope of the degree-1 least-squares fit of ys against xs (integers,
\* the base-2 logarithms).  With no point polyfit raises TypeError; with one
\* point the system has rank 1 and lstsq returns the minimum-norm solution of
\* the column-scaled system (slope y / (2 x), or 0 when x = 0); with two or
\* more points of distinct abscissae it is the ordinary least-squares slope.
PolyfitFails(xs) == Len(xs) = 0

PolyfitSlope(xs, ys) ==
    LET m == Len(xs)
        sx == SumSeq(xs)
        sy == SumSeq(ys)
        sxy == SumSeq([i \in 1..m |-> xs[i] * ys[i]])
        sxx == SumSeq([i \in 1..m |-> xs[i] * xs[i]])
    IN  IF m = 1
        THEN IF xs[1] = 0 THEN R(0) ELSE RNorm(ys[1], 2 * xs[1])
        ELSE RNorm(m * sxy - sx * sy, m * sxx - sx * sx)


\* Mutant: forward differences at the interior points.
GradientForward(f) ==
    LET n == Len(f)
    IN  [i \in 1..n |->
            IF i = n THEN RSub(f[n], f[n - 1]) ELSE RSub(f[i + 1], f[i])]

\* np.gradient(f) with unit spacing, for Len(f) >= 2.
Gradient(f) ==
    LET n == Len(f)
    IN  [i \in 1..n |->
            IF i = 1 THEN RSub(f[2], f[1])
            ELSE IF i = n THEN RSub(f[n], f[n - 1])
            ELSE RDiv(RSub(f[i + 1], f[i - 1]), R(2))]

----------------------------------------------------------------------------
(* The fit range *)


\* Mutant: the first lag point is kept.
PublicDefaultLimFromZero(lg) == <<Idx(0), Idx(Len(lg) \div 2)>>

\* Lines 66-67, 146-147, 211-212: lim = [1, lag.size//2]
PublicDefaultLim(lg) == <<Idx(1), Idx(Len(lg) \div 2)>>

ResolveLim(l, lg) == IF l[1] = None /\ l[2] = None THEN PublicDefaultLim(lg) ELSE l

\* Lines 236-237: lim = [lag[1], lag[lag.size//2]]
SlopesLimFails(l, lg) == l[1] = None /\ l[2] = None /\ Len(lg) < 2

SlopesDefaultLim(lg) == <<Idx(lg[2]), Idx(lg[(Len(lg) \div 2) + 1])>>

SlopesResolveLim(l, lg) == IF l[1] = None /\ l[2] = None THEN SlopesDefaultLim(lg) ELSE l

----------------------------------------------------------------------------
(* _slopes, hurst_exponents, scaling_exponents, singularity_spectrum *)

Column(m, j) == [i \in 1..m.rows |-> m.data[i][j]]

LogSeq(s) == [i \in 1..Len(s) |-> Log2(s[i])]


\* Mutant: the row count is compared instead of the column count.
DimensionMismatchRows(m, qc) == m.rows # Len(qc)

\* Lines 246-249
DimensionMismatch(m, qc) == m.cols # Len(qc)

\* Lines 255-260, one pass of the loop
FitColumn(lg, m, l, j) ==
    PolyfitSlope(LogSeq(PySlice(lg, l[1], l[2])),
                 LogSeq(PySlice(Column(m, j), l[1], l[2])))

slopes(lg, m, qq, l) ==
    IF SlopesLimFails(l, lg) THEN Err("IndexError")
    ELSE LET ll == SlopesResolveLim(l, lg)
             c == clean_q(qq)
         IN  IF c.status # "ok" THEN c
             ELSE IF DimensionMismatch(m, c.a) THEN Err("DimensionError")
             ELSE IF Len(c.a) > 0 /\ PolyfitFails(PySlice(lg, ll[1], ll[2]))
                  THEN Err("TypeError")
             ELSE Ok([j \in 1..Len(c.a) |-> FitColumn(lg, m, ll, j)], <<>>)


\* Mutant: the caller's q is returned instead of the cleaned one.
hurst_exponents_raw_q(lg, m, qq, l) ==
    LET ll == ResolveLim(l, lg)
        c == clean_q(qq)
    IN  IF c.status # "ok" THEN c
        ELSE LET hq == slopes(lg, m, c.a, ll)
             IN  IF hq.status # "ok" THEN hq ELSE Ok(qq, hq.a)

hurst_exponents(lg, m, qq, l) ==
    LET ll == ResolveLim(l, lg)
        c == clean_q(qq)
    IN  IF c.status # "ok" THEN c
        ELSE LET hq == slopes(lg, m, c.a, ll)
             IN  IF hq.status # "ok" THEN hq ELSE Ok(c.a, hq.a)

\* Line 155: (q * slopes) - 1
Tau(qv, h) == RSub(RMul(qv, h), R(1))

scaling_exponents(lg, m, qq, l) ==
    LET ll == ResolveLim(l, lg)
        c == clean_q(qq)
    IN  IF c.status # "ok" THEN c
        ELSE LET s == slopes(lg, m, c.a, ll)
             IN  IF s.status # "ok" THEN s
                 ELSE Ok(c.a, [j \in 1..Len(c.a) |-> Tau(c.a[j], s.a[j])])

\* Line 273: q * alpha - tau
falpha(tau, alpha, qv) == RSub(RMul(qv, alpha), tau)

\* Line 76: np.gradient(tau) / np.gradient(q)
Alpha(tau, qc) ==
    LET gt == Gradient(tau)
        gq == Gradient(qc)
    IN  [i \in 1..Len(qc) |-> RDiv(gt[i], gq[i])]

singularity_spectrum(lg, m, qq, l) ==
    LET ll == ResolveLim(l, lg)
        c == clean_q(qq)
    IN  IF c.status # "ok" THEN c
        ELSE LET t == scaling_exponents(lg, m, c.a, ll)
             IN  IF t.status # "ok" THEN t
                 ELSE IF Len(t.b) < 2 THEN Err("GradientError")
                 ELSE LET alpha == Alpha(t.b, c.a)
                      IN  Ok(alpha,
                             [i \in 1..Len(c.a) |-> falpha(t.b[i], alpha[i], c.a[i])])

----------------------------------------------------------------------------
(* Inputs *)

SeqsUpTo(S, n) == UNION {[1..k -> S] : k \in 0..n}

Distinct(s) == \A i, j \in 1..Len(s) : i # j => s[i] # s[j]

\* Moment orders: distinct values, some inside the band |q| <= 0.1, some
\* non-finite.
QVals == {<<-2, 1>>, <<1, 10>>, <<1, 1>>, <<3, 1>>, NaN}
Qs == {s \in SeqsUpTo(QVals, MaxQLen) : Distinct(s)}

\* Moment orders for the cleaner alone: any sequence, repeats included.
CleanVals == {<<-2, 1>>, <<-1, 10>>, <<1, 20>>, <<1, 10>>, <<3, 1>>, NaN, PInf}
CleanQs == SeqsUpTo(CleanVals, MaxCleanLen)

\* Lags: strictly increasing powers of two, unevenly spaced in the logarithm.
LagAt(s, i) == Pow2(s + (i - 1) + ((i - 1) \div 2))
Lags == {[i \in 1..n |-> LagAt(s, i)] : s \in {0, 1}, n \in 0..MaxLagLen}

\* Fluctuation matrices with one row per lag: an irregular table of powers
\* of two, so that the columns have different slopes.
Exponent(i, j) == (i * (i + j)) % 5

Matrix(lg, cols) ==
    [rows |-> Len(lg), cols |-> cols,
     data |-> [i \in 1..Len(lg) |-> [j \in 1..cols |-> Pow2(Exponent(i, j))]]]

Lims == {Omitted, NoneNone, <<Idx(0), None>>, <<Idx(1), Idx(3)>>, <<Idx(1), Idx(-1)>>}

Functions == {"slopes", "hurst_exponents", "scaling_exponents", "singularity_spectrum"}
Public == Functions \ {"slopes"}

\* Lines 15, 85, 159, 224: each def owns one default list, built once.
PristineDefaults == [f \in Functions |-> NoneNone]

----------------------------------------------------------------------------
(* The calls *)


\* Mutant: the default range is stored into the list itself.
LimAfterCallInPlace(l, lg) == ResolveLim(l, lg)

\* What a call leaves in the list object it was handed as lim (the caller's
\* list, or the function's default list): lines 67, 147, 212, 237 rebind the
\* local name lim and store nothing into the list.
LimAfterCall(l, lg) == l

\* What a call leaves in the caller's q: lines 70, 150, 215, 240 rebind the
\* local name q to the new array _clean_q built.
QAfterCall(qq) == qq

Run(f, lg, m, qq, l) ==
    CASE f = "slopes" -> slopes(lg, m, qq, l)
      [] f = "hurst_exponents" -> hurst_exponents(lg, m, qq, l)
      [] f = "scaling_exponents" -> scaling_exponents(lg, m, qq, l)
      [] f = "singularity_spectrum" -> singularity_spectrum(lg, m, qq, l)

Call(f) ==
    LET l == IF lim = Omitted THEN default_lim[f] ELSE lim
    IN  /\ op' = f
        /\ result' = Run(f, lag, mfdfa, q, l)
        /\ q' = QAfterCall(q)
        /\ IF lim = Omitted
           THEN /\ default_lim' = [default_lim EXCEPT ![f] = LimAfterCall(l, lag)]
                /\ lim' = lim
           ELSE /\ lim' = LimAfterCall(l, lag)
                /\ default_lim' = default_lim
        /\ UNCHANGED <<lag, mfdfa>>

CallSlopes == Call("slopes")
CallHurstExponents == Call("hurst_exponents")
CallScalingExponents == Call("scaling_exponents")
CallSingularitySpectrum == Call("singularity_spectrum")

CallCleanQ ==
    /\ op' = "clean_q"
    /\ result' = clean_q(q)
    /\ q' = QAfterCall(q)
    /\ UNCHANGED <<lag, mfdfa, lim, default_lim>>

Init ==
    /\ lag \in Lags
    /\ \E cols \in 0..MaxCols : mfdfa = Matrix(lag, cols)
    /\ q \in Qs
    /\ lim \in Lims
    /\ default_lim = PristineDefaults
    /\ op = "none"
    /\ result = NoResult

Next ==
    \/ CallCleanQ
    \/ CallSlopes
    \/ CallHurstExponents
    \/ CallScalingExponents
    \/ CallSingularitySpectrum

Spec == Init /\ [][Next]_vars

\* The cleaner alone, over a wider set of moment orders.
InitClean ==
    /\ lag = <<>>
    /\ mfdfa = Matrix(<<>>, 0)
    /\ q \in CleanQs
    /\ lim = NoneNone
    /\ default_lim = PristineDefaults
    /\ op = "none"
    /\ result = NoResult

NextClean == CallCleanQ

SpecClean == InitClean /\ [][NextClean]_vars

----------------------------------------------------------------------------
(* Properties *)

\* |v| > 0.1, for a finite v
OutsideBand(v) == 10 * Abs(v[1]) > v[2]

Cleaned(s) == SelectSeq(s, OutsideBand)

CleanedLen(s) == Cardinality({i \in 1..Len(s) : OutsideBand(s[i])})

\* The lim argument as the call sees it: an omitted lim is the def's default
\* list, [None, None].
ArgLim == IF lim = Omitted THEN NoneNone ELSE lim

LimUnset == lim \in {Omitted, NoneNone}

LiteralDefault == <<Idx(1), Idx(Len(lag) \div 2)>>

\* The number of lag points in the fit range a public operation uses.
FitPoints == Len(PySlice(lag, ResolveLim(ArgLim, lag)[1], ResolveLim(ArgLim, lag)[2]))

C2_MismatchIsDimensionError ==
    (op \in Public /\ AsarrayChkfinite(q) /\ mfdfa.cols # CleanedLen(q)) =>
        result = Err("DimensionError")

C2_Witness ==
    /\ op = "singularity_spectrum"
    /\ AsarrayChkfinite(q)
    /\ mfdfa.cols = Len(q)
    /\ CleanedLen(q) < Len(q)
    /\ result = Err("DimensionError")

\* C3: a call of any of the four functions with a NaN or infinite entry in Q
\* fails with the domain error, whatever the other arguments are.
C3_NonFiniteIsDomainError ==
    (op \in Functions /\ ~AsarrayChkfinite(q)) => result = Err("DomainError")

\* C4: the two arrays a public operation returns have the length of the
\* cleaned Q, which is the length of Q when no entry of Q lies in the band.
C4_OutputLengths ==
    (op \in Public /\ result.status = "ok") =>
        /\ Len(result.a) = CleanedLen(q)
        /\ Len(result.b) = CleanedLen(q)
        /\ (\A i \in 1..Len(q) : OutsideBand(q[i])) => Len(result.a) = Len(q)

C4_Witness ==
    /\ op = "hurst_exponents"
    /\ result.status = "ok"
    /\ Len(q) = 3
    /\ Len(result.a) = 2
    /\ Len(result.b) = 2

\* C5: a public operation called with lim unset ([None, None] or omitted) has
\* the outcome of the same call with lim = [1, L//2].
C5_DefaultIsLiteralRange ==
    (op \in Public /\ LimUnset) => result = Run(op, lag, mfdfa, q, LiteralDefault)

C5_Witness ==
    /\ op = "scaling_exponents"
    /\ lim = Omitted
    /\ Len(lag) = MaxLagLen
    /\ result.status = "ok"
    /\ Len(result.b) >= 2

\* C6: hurst_exponents returns the cleaned Q and the slope vector _slopes
\* produces for the same arguments, and scaling_exponents returns the cleaned
\* Q and tau[j] = q_out[j] * h[j] - 1 for that slope vector h.
C6_HurstIsSlopesOfSameArguments ==
    LET h == slopes(lag, mfdfa, q, ArgLim).a
    IN  /\ (op = "hurst_exponents" /\ result.status = "ok") =>
              /\ result.a = Cleaned(q)
              /\ result.b = h
        /\ (op = "scaling_exponents" /\ result.status = "ok") =>
              /\ result.a = Cleaned(q)
              /\ Len(result.b) = Len(h)
              /\ \A j \in 1..Len(result.b) :
                    result.b[j] = RSub(RMul(result.a[j], h[j]), R(1))

\* C7: singularity_spectrum returns alpha as the one-sided difference
\* quotient of tau over q at both ends and the central difference quotient at
\* every interior index, and f[i] = q[i] * alpha[i] - tau[i].
C7_SpectrumIsDifferenceQuotient ==
    (op = "singularity_spectrum" /\ result.status = "ok") =>
        LET t == scaling_exponents(lag, mfdfa, q, ArgLim)
            qc == t.a
            tau == t.b
            n == Len(qc)
            alpha == result.a
            f == result.b
        IN  /\ n >= 2
            /\ Len(alpha) = n
            /\ Len(f) = n
            /\ alpha[1] = RDiv(RSub(tau[2], tau[1]), RSub(qc[2], qc[1]))
            /\ alpha[n] = RDiv(RSub(tau[n], tau[n - 1]), RSub(qc[n], qc[n - 1]))
            /\ \A i \in 2..(n - 1) :
                  alpha[i] = RDiv(RSub(tau[i + 1], tau[i - 1]), RSub(qc[i + 1], qc[i - 1]))
            /\ \A i \in 1..n : f[i] = RSub(RMul(qc[i], alpha[i]), tau[i])

C7_Witness ==
    /\ op = "singularity_spectrum"
    /\ result.status = "ok"
    /\ q = << <<-2, 1>>, <<1, 1>>, <<3, 1>> >>
    /\ result.a[1] # result.a[2]
    /\ result.a[2] # result.a[3]

\* C8: _slopes called with lim unset, on a Lag of at least 2 entries, has the
\* outcome of the same call with lim = [1, L//2].
C8_SlopesDefaultIsLiteralRange ==
    (op = "slopes" /\ LimUnset /\ Len(lag) >= 2) =>
        result = slopes(lag, mfdfa, q, LiteralDefault)

\* C9 as stated: _clean_q returns a sequence for every finite Q, and when the
\* cleaned Q has 0 or 1 entries, the matrix has that many columns and the fit
\* range holds at least 2 lag points, every public operation returns arrays of
\* the cleaned Q's length.
C9_ShortQNeverFails ==
    /\ (op = "clean_q" /\ AsarrayChkfinite(q)) => result.status = "ok"
    /\ (/\ op \in Public
        /\ AsarrayChkfinite(q)
        /\ CleanedLen(q) <= 1
        /\ mfdfa.cols = CleanedLen(q)
        /\ FitPoints >= 2) =>
          /\ result.status = "ok"
          /\ Len(result.a) = CleanedLen(q)
          /\ Len(result.b) = CleanedLen(q)

\* C9 amended: as stated for _clean_q, hurst_exponents and scaling_exponents;
\* singularity_spectrum fails there with the error np.gradient raises for an
\* array of fewer than 2 entries.
C9_ShortQFailsOnlyInSpectrum ==
    /\ (op = "clean_q" /\ AsarrayChkfinite(q)) =>
          /\ result.status = "ok"
          /\ Len(result.a) = CleanedLen(q)
    /\ (/\ op \in Public
        /\ AsarrayChkfinite(q)
        /\ CleanedLen(q) <= 1
        /\ mfdfa.cols = CleanedLen(q)
        /\ FitPoints >= 2) =>
          IF op = "singularity_spectrum"
          THEN result = Err("GradientError")
          ELSE /\ result.status = "ok"
               /\ Len(result.a) = CleanedLen(q)
               /\ Len(result.b) = CleanedLen(q)

C9_Witness ==
    /\ op = "scaling_exponents"
    /\ Len(q) >= 2
    /\ CleanedLen(q) = 1
    /\ FitPoints >= 2
    /\ result.status = "ok"
    /\ Len(result.b) = 1

\* C10: a call leaves the caller's Lag, matrix, Q and lim as they were and
\* every default lim list at [None, None], and its outcome is the function of
\* its own arguments, whatever calls came before it.
C10_NoStateCarried ==
    [][/\ lag' = lag
       /\ mfdfa' = mfdfa
       /\ q' = q
       /\ lim' = lim
       /\ default_lim' = PristineDefaults
       /\ op' \in Functions => result' = Run(op', lag, mfdfa, q, ArgLim)
       /\ op' = op => result' = result]_vars

C10_Witness ==
    /\ op = "slopes"
    /\ lim = Omitted
    /\ default_lim = PristineDefaults
    /\ result.status = "ok"
    /\ Len(result.a) >= 1

============================================================================
